---- MODULE Spec2Model ----
(***************************************************************************)
(* Model of the payment chaincode                                          *)
(*   src/hyperledger/part5/part5_riseHackathonChainCode.go                 *)
(* The file holds two chaincode programs over the same ledger interface:   *)
(* lines 1-453 (initSmartPay, the composite create) and lines 455-803      *)
(* (initPayment, the simple create).  Init, Delete, Write and read are the *)
(* same text in both.                                                      *)
(*                                                                         *)
(* A Go string / []byte is a sequence of lexemes: the JSON delimiters      *)
(*   {  }  [  ]  :  ,  "                                                   *)
(* are one lexeme each, and every other lexeme is a maximal run of         *)
(* characters holding no delimiter, no backslash and no white space (an    *)
(* identifier, a number, a field name).  White space between the pieces of *)
(* the string templates is left out: JSON ignores it outside strings.      *)
(* Concatenation (+) is \o and []byte(s) is s itself.                      *)
(***************************************************************************)
EXTENDS Integers, Sequences, FiniteSets, TLC

VARIABLES store, last, live, procs

vars == <<store, last, live, procs>>

----------------------------------------------------------------------------
(* Lexemes *)

Q == "\""

S(w) == <<w>>

smartPayIndexStr == S("_smartpayindex")

paymentIndexStr == S("_paymentindex")

abcKey == S("abc")

----------------------------------------------------------------------------
(* strings and strconv *)

\* strings.ToLower on one lexeme: the upper-case lexemes the model uses.
LowerWord(w) ==
    CASE w = "T1" -> "t1"
      [] w = "S2" -> "s2"
      [] w = "Carol" -> "carol"
      [] w = "USD" -> "usd"
      [] w = "EUR" -> "eur"
      [] w = "SmartPayTransID" -> "smartpaytransid"
      [] w = "smartPayTransID" -> "smartpaytransid"
      [] w = "PaymentTrans" -> "paymenttrans"
      [] w = "paymentTrans" -> "paymenttrans"
      [] w = "RemitTrans" -> "remittrans"
      [] w = "remitTrans" -> "remittrans"
      [] w = "LendTrans" -> "lendtrans"
      [] w = "lentTrans" -> "lenttrans"
      [] w = "paymentTransID" -> "paymenttransid"
      [] w = "remittanceTransID" -> "remittancetransid"
      [] w = "lendingTransID" -> "lendingtransid"
      [] w = "transactionID" -> "transactionid"
      [] w = "drawerID" -> "drawerid"
      [] w = "payeeID" -> "payeeid"
      [] w = "sourceID" -> "sourceid"
      [] w = "sourceCurrency" -> "sourcecurrency"
      [] w = "destinationID" -> "destinationid"
      [] w = "destinationCurrency" -> "destinationcurrency"
      [] w = "ExchangeRate" -> "exchangerate"
      [] w = "lendorID" -> "lendorid"
      [] w = "borrowerID" -> "borrowerid"
      [] w = "loanAmount" -> "loanamount"
      [] w = "loanRate" -> "loanrate"
      [] w = "loanReturnDate" -> "loanreturndate"
      [] OTHER -> w

ToLower(s) == [i \in DOMAIN s |-> LowerWord(s[i])]

\* The decimal literals of the model and the integer each denotes.
IntLits == {"0", "7", "35", "+7", "-3"}

IntOfLit(w) ==
    CASE w = "0" -> 0
      [] w = "7" -> 7
      [] w = "+7" -> 7
      [] w = "35" -> 35
      [] w = "-3" -> 0 - 3
      [] OTHER -> 0

\* strconv.Atoi: [ok, n]
Atoi(s) ==
    IF Len(s) = 1 /\ s[1] \in IntLits
    THEN [ok |-> TRUE, n |-> IntOfLit(s[1])]
    ELSE [ok |-> FALSE, n |-> 0]

\* strconv.Itoa
Itoa(n) ==
    CASE n = 0 -> S("0")
      [] n = 7 -> S("7")
      [] n = 35 -> S("35")
      [] n = 0 - 3 -> S("-3")

\* A float64 is modelled by its value in hundredths.
FloatLits == {"0", "7", "35", "+7", "-3", "35.50", "35.5", "1.2", "1000", "4.25"}

FloatOfLit(w) ==
    CASE w = "0" -> 0
      [] w = "7" -> 700
      [] w = "+7" -> 700
      [] w = "35" -> 3500
      [] w = "-3" -> 0 - 300
      [] w = "35.50" -> 3550
      [] w = "35.5" -> 3550
      [] w = "1.2" -> 120
      [] w = "1000" -> 100000
      [] w = "4.25" -> 425
      [] OTHER -> 0

\* strconv.ParseFloat(s, 64): [ok, x]
ParseFloat(s) ==
    IF Len(s) = 1 /\ s[1] \in FloatLits
    THEN [ok |-> TRUE, x |-> FloatOfLit(s[1])]
    ELSE [ok |-> FALSE, x |-> 0]

\* strconv.FormatFloat(x, 'f', -1, 64): the shortest decimal that reads back as x
FormatFloat(x) ==
    CASE x = 0 -> S("0")
      [] x = 700 -> S("7")
      [] x = 3500 -> S("35")
      [] x = 0 - 300 -> S("-3")
      [] x = 3550 -> S("35.5")
      [] x = 120 -> S("1.2")
      [] x = 100000 -> S("1000")
      [] x = 425 -> S("4.25")

----------------------------------------------------------------------------
(* encoding/json: the syntax check and the decoder of json.Unmarshal *)

\* The number lexemes that are JSON numbers (JSON allows no leading +).
JSONNumberLits == FloatLits \ {"+7"}

\* A parsed JSON value: k its kind, s the lexemes of a string or number,
\* m the members of an object or the elements of an array.
JV(k, s, m) == [k |-> k, s |-> s, m |-> m]

JFail == [ok |-> FALSE, next |-> 0, v |-> JV("none", <<>>, <<>>)]

JOk(n, v) == [ok |-> TRUE, next |-> n, v |-> v]

RECURSIVE ScanString(_, _)
\* The place of the quote that closes a string whose content starts at i,
\* 0 when the string is not closed.
ScanString(t, i) ==
    IF i > Len(t) THEN 0
    ELSE IF t[i] = Q THEN i
    ELSE ScanString(t, i + 1)

RECURSIVE ParseValue(_, _), ParseMembers(_, _, _), ParseElements(_, _, _)
\* One JSON value starting at lexeme i.
ParseValue(t, i) ==
    IF i > Len(t) THEN JFail
    ELSE IF t[i] = Q THEN
        LET j == ScanString(t, i + 1)
        IN  IF j = 0 THEN JFail
            ELSE JOk(j + 1, JV("string", SubSeq(t, i + 1, j - 1), <<>>))
    ELSE IF t[i] = "{" THEN
        IF i < Len(t) /\ t[i + 1] = "}"
        THEN JOk(i + 2, JV("object", <<>>, <<>>))
        ELSE ParseMembers(t, i + 1, <<>>)
    ELSE IF t[i] = "[" THEN
        IF i < Len(t) /\ t[i + 1] = "]"
        THEN JOk(i + 2, JV("array", <<>>, <<>>))
        ELSE ParseElements(t, i + 1, <<>>)
    ELSE IF t[i] = "null" THEN JOk(i + 1, JV("null", <<>>, <<>>))
    ELSE IF t[i] \in {"true", "false"} THEN JOk(i + 1, JV("bool", S(t[i]), <<>>))
    ELSE IF t[i] \in JSONNumberLits THEN JOk(i + 1, JV("number", S(t[i]), <<>>))
    ELSE JFail

\* The members of an object from lexeme i (a key is expected), acc those read.
ParseMembers(t, i, acc) ==
    IF i > Len(t) \/ t[i] # Q THEN JFail
    ELSE
        LET j == ScanString(t, i + 1)
        IN  IF j = 0 \/ j + 1 > Len(t) \/ t[j + 1] # ":" THEN JFail
            ELSE
                LET r == ParseValue(t, j + 2)
                    acc2 == Append(acc, [key |-> SubSeq(t, i + 1, j - 1), val |-> r.v])
                IN  IF ~r.ok \/ r.next > Len(t) THEN JFail
                    ELSE IF t[r.next] = "," THEN ParseMembers(t, r.next + 1, acc2)
                    ELSE IF t[r.next] = "}" THEN JOk(r.next + 1, JV("object", <<>>, acc2))
                    ELSE JFail

\* The elements of an array from lexeme i (a value is expected), acc those read.
ParseElements(t, i, acc) ==
    LET r == ParseValue(t, i)
        acc2 == Append(acc, r.v)
    IN  IF ~r.ok \/ r.next > Len(t) THEN JFail
        ELSE IF t[r.next] = "," THEN ParseElements(t, r.next + 1, acc2)
        ELSE IF t[r.next] = "]" THEN JOk(r.next + 1, JV("array", <<>>, acc2))
        ELSE JFail

\* checkValid followed by the decode to a value: the whole input is one value.
ParseJSON(t) ==
    LET r == ParseValue(t, 1)
    IN  IF r.ok /\ r.next = Len(t) + 1 THEN r ELSE JFail

\* A struct type: its fields in declaration order, each with its json tag.
Field(tag, ty, sub) == [tag |-> tag, ty |-> ty, sub |-> sub]

RECURSIVE ZeroStruct(_)
\* The zero value of a struct: "" for a string, 0 for a number.
ZeroStruct(schema) ==
    [i \in DOMAIN schema |->
        CASE schema[i].ty = "string" -> <<>>
          [] schema[i].ty \in {"int", "float"} -> 0
          [] schema[i].ty = "struct" -> ZeroStruct(schema[i].sub)]

\* The field an object key names: the exact tag, else the first tag equal
\* under case folding; 0 when no field matches.
FieldIndex(schema, key) ==
    LET exact == {i \in DOMAIN schema : S(schema[i].tag) = key}
        fold == {i \in DOMAIN schema : ToLower(S(schema[i].tag)) = ToLower(key)}
        Min(X) == CHOOSE x \in X : \A y \in X : x <= y
    IN  IF exact # {} THEN Min(exact)
        ELSE IF fold # {} THEN Min(fold)
        ELSE 0

RECURSIVE DecodeMembers(_, _, _, _), DecodeField(_, _, _)
\* A value decoded into a field holding old: a value of another kind than the
\* field's type is an UnmarshalTypeError and leaves the field as it is.
DecodeField(val, f, old) ==
    CASE f.ty = "string" -> IF val.k = "string" THEN val.s ELSE old
      [] f.ty = "int" ->
            IF val.k = "number" /\ val.s[1] \in IntLits
            THEN IntOfLit(val.s[1]) ELSE old
      [] f.ty = "float" -> IF val.k = "number" THEN FloatOfLit(val.s[1]) ELSE old
      [] f.ty = "struct" ->
            IF val.k = "object" THEN DecodeMembers(val.m, 1, f.sub, old) ELSE old

\* The members m[i..] of an object decoded into the struct value cur.
DecodeMembers(m, i, schema, cur) ==
    IF i > Len(m) THEN cur
    ELSE
        LET f == FieldIndex(schema, m[i].key)
        IN  DecodeMembers(m, i + 1, schema,
                IF f = 0 THEN cur
                ELSE [cur EXCEPT ![f] = DecodeField(m[i].val, schema[f], cur[f])])

\* json.Unmarshal(bytes, &res) with res a zero struct: input that is not
\* valid JSON leaves res untouched.
UnmarshalStruct(bytes, schema) ==
    LET r == ParseJSON(bytes)
    IN  IF r.ok /\ r.v.k = "object"
        THEN DecodeMembers(r.v.m, 1, schema, ZeroStruct(schema))
        ELSE ZeroStruct(schema)

\* A []string: nil, or its elements.
NilSlice == [nil |-> TRUE, elems |-> <<>>]

MkSlice(e) == [nil |-> FALSE, elems |-> e]

\* json.Unmarshal(bytes, &index) with index a nil []string.
UnmarshalIndex(bytes) ==
    LET r == ParseJSON(bytes)
    IN  IF r.ok /\ r.v.k = "array"
        THEN MkSlice([i \in DOMAIN r.v.m |->
                        IF r.v.m[i].k = "string" THEN r.v.m[i].s ELSE <<>>])
        ELSE NilSlice

\* Bytes json.Unmarshal does not decode to a []string without an error: not
\* JSON at all, a value that is no array, an array with an element that is no
\* string.  (null decodes, to the nil slice.)
Malformed(bytes) ==
    LET r == ParseJSON(bytes)
    IN  ~ /\ r.ok
          /\ \/ r.v.k = "null"
             \/ /\ r.v.k = "array"
                /\ \A i \in DOMAIN r.v.m : r.v.m[i].k = "string"

RECURSIVE JoinStrings(_, _)
\* "e1","e2",... from element i on.
JoinStrings(e, i) ==
    IF i > Len(e) THEN <<>>
    ELSE <<Q>> \o e[i] \o <<Q>> \o
         (IF i < Len(e) THEN <<",">> ELSE <<>>) \o JoinStrings(e, i + 1)

\* json.Marshal of a []string: null for the nil slice.
MarshalIndex(sl) ==
    IF sl.nil THEN S("null")
    ELSE <<"[">> \o JoinStrings(sl.elems, 1) \o <<"]">>

\* An append that puts the id in front.
PrependSlice(sl, id) == MkSlice(<<id>> \o sl.elems)

\* append(index, id)
AppendSlice(sl, id) == MkSlice(Append(sl.elems, id))

----------------------------------------------------------------------------
(* The record types *)

\* PaymentTransaction of the simple-payment program (the type initPayment decodes)
PaymentTransaction ==
    << Field("transactionID", "string", <<>>),
       Field("drawerID", "string", <<>>),
       Field("payeeID", "string", <<>>),
       Field("amount", "int", <<>>),
       Field("currency", "string", <<>>) >>

\* PaymentTransaction of the smart-pay program
SmartPayPaymentTransaction ==
    << Field("paymentTransID", "string", <<>>),
       Field("drawerID", "string", <<>>),
       Field("payeeID", "string", <<>>),
       Field("amount", "float", <<>>),
       Field("currency", "string", <<>>) >>

RemittanceTransaction ==
    << Field("remittanceTransID", "string", <<>>),
       Field("sourceID", "string", <<>>),
       Field("sourceCurrency", "string", <<>>),
       Field("destinationID", "string", <<>>),
       Field("destinationCurrency", "string", <<>>),
       Field("amount", "float", <<>>),
       Field("ExchangeRate", "float", <<>>) >>

LendingTransacation ==
    << Field("lendingTransID", "string", <<>>),
       Field("lendorID", "string", <<>>),
       Field("borrowerID", "string", <<>>),
       Field("loanAmount", "float", <<>>),
       Field("currency", "string", <<>>),
       Field("loanRate", "float", <<>>),
       Field("loanReturnDate", "string", <<>>) >>

SmartPayTransaction ==
    << Field("smartPayTransID", "string", <<>>),
       Field("paymentTrans", "struct", SmartPayPaymentTransaction),
       Field("remitTrans", "struct", RemittanceTransaction),
       Field("lentTrans", "struct", LendingTransacation) >>

----------------------------------------------------------------------------
(* The pieces of the hand-built JSON templates *)

\* {"name": "
ObjStr(name) == <<"{", Q, name, Q, ":", Q>>

\* ", "name": "
StrStr(name) == <<Q, ",", Q, name, Q, ":", Q>>

\* ", "name": (a number follows)
StrNum(name) == <<Q, ",", Q, name, Q, ":">>

\* , "name": "
NumStr(name) == <<",", Q, name, Q, ":", Q>>

\* , "name": (a number follows)
NumNum(name) == <<",", Q, name, Q, ":">>

\* "}
CloseStr == <<Q, "}">>

\* initPayment's str: no quote closes drawerID, and transID follows the amount
\* (in the bytes the digits and transID run together: not a JSON number).
PaymentStr(transID, drawerID, payeeID, amount, currency) ==
    ObjStr("transactionID") \o transID \o StrStr("drawerID") \o drawerID
        \o NumStr("payeeID") \o payeeID \o StrNum("amount") \o Itoa(amount)
        \o transID \o StrStr("currency") \o currency \o CloseStr

\* initSmartPay's strPmt
StrPmt(ptransID, drawerID, payeeID, pAmount, currency) ==
    ObjStr("paymentTransID") \o ptransID \o StrStr("drawerID") \o drawerID
        \o StrStr("payeeID") \o payeeID \o StrNum("amount") \o FormatFloat(pAmount)
        \o NumStr("currency") \o currency \o CloseStr

\* initSmartPay's strRem: a quote follows the exchange rate
StrRem(rtransID, sourceID, sourceCurrency, destinationID, destinationCurrency, rAmount, exchangeRate) ==
    ObjStr("remittanceTransID") \o rtransID \o StrStr("sourceID") \o sourceID
        \o StrStr("sourceCurrency") \o sourceCurrency
        \o StrStr("destinationID") \o destinationID
        \o StrStr("destinationCurrency") \o destinationCurrency
        \o StrNum("amount") \o FormatFloat(rAmount)
        \o NumNum("ExchangeRate") \o FormatFloat(exchangeRate) \o CloseStr

\* initSmartPay's strLen
StrLen(ltransID, lendorID, borrowerID, loanAmount, lcurrency, loanRate, loanReturnDate) ==
    ObjStr("lendingTransID") \o ltransID \o StrStr("lendorID") \o lendorID
        \o StrStr("borrowerID") \o borrowerID
        \o StrNum("loanAmount") \o FormatFloat(loanAmount)
        \o NumStr("currency") \o lcurrency
        \o StrNum("loanRate") \o FormatFloat(loanRate)
        \o NumStr("loanReturnDate") \o loanReturnDate \o CloseStr

\* initSmartPay's strSmPay: the three objects are pasted between quotes
StrSmPay(smartPayID, strPmt, strRem, strLen) ==
    ObjStr("SmartPayTransID") \o smartPayID \o StrStr("PaymentTrans") \o strPmt
        \o StrStr("RemitTrans") \o strRem \o StrStr("LendTrans") \o strLen
        \o CloseStr

----------------------------------------------------------------------------
(* The ledger: stub.GetState, stub.PutState, stub.DelState *)

\* A key under which nothing is stored reads as no bytes.
NoBytes == <<>>

GetState(st, key) == st[key]

PutState(st, key, val) == [st EXCEPT ![key] = val]

DelState(st, key) == [st EXCEPT ![key] = NoBytes]

\* What a handler leaves: the ledger, the error returned ("" for nil), the
\* bytes returned, and whether it returns because a store call failed.
NoErr == ""

Result(st, err) == [store |-> st, err |-> err, out |-> NoBytes, failed |-> FALSE]

\* The same for the return that follows a store call that failed.
Failure(st, err) == [store |-> st, err |-> err, out |-> NoBytes, failed |-> TRUE]

\* An index expression past the end of args.
PanicIndex == "panic: runtime error: index out of range"

\* The error of a failed PutState, passed on as it is.
PutStateErr == "PutState failed"

\* A create that drops the error of the index read.
GetIndexErrDropped == NoErr

\* The error a create returns when the read of its index fails.
GetIndexErr == "Failed to get marble index"

----------------------------------------------------------------------------
(* Input sanitation *)

NonEmpty(pos, msg) == [kind |-> "nonempty", pos |-> pos, msg |-> msg]

IsFloat(pos, msg) == [kind |-> "float", pos |-> pos, msg |-> msg]

IsInt(pos, msg) == [kind |-> "int", pos |-> pos, msg |-> msg]

RECURSIVE RunChecks(_, _, _)
\* The checks from the i-th on, in the order of the code: the first that fails
\* gives the error; reading args past its end panics.  (pos is args[pos-1].)
RunChecks(args, checks, i) ==
    IF i > Len(checks) THEN NoErr
    ELSE
        LET c == checks[i]
        IN  IF c.pos > Len(args) THEN PanicIndex
            ELSE IF c.kind = "nonempty" /\ Len(args[c.pos]) <= 0 THEN c.msg
            ELSE IF c.kind = "float" /\ ~ParseFloat(args[c.pos]).ok THEN c.msg
            ELSE IF c.kind = "int" /\ ~Atoi(args[c.pos]).ok THEN c.msg
            ELSE RunChecks(args, checks, i + 1)

\* initPaymentChecks without the check that the amount is a number.
initPaymentChecksNoAmount ==
    << NonEmpty(1, "1st argument must be a non-empty string"),
       NonEmpty(2, "2nd argument must be a non-empty string"),
       NonEmpty(3, "3rd argument must be a non-empty string"),
       NonEmpty(4, "4th argument must be a non-empty string"),
       NonEmpty(5, "5th argument must be a non-empty string") >>

initPaymentChecks ==
    << NonEmpty(1, "1st argument must be a non-empty string"),
       NonEmpty(2, "2nd argument must be a non-empty string"),
       NonEmpty(3, "3rd argument must be a non-empty string"),
       NonEmpty(4, "4th argument must be a non-empty string"),
       NonEmpty(5, "5th argument must be a non-empty string"),
       IsInt(4, "3rd argument must be a numeric string") >>

initSmartPayChecks ==
    << NonEmpty(1, "1st argument must be a non-empty string"),
       NonEmpty(2, "2nd argument must be a non-empty string"),
       NonEmpty(3, "3rd argument must be a non-empty string"),
       NonEmpty(4, "4th argument must be a non-empty string"),
       NonEmpty(5, "5th argument must be a non-empty string"),
       IsFloat(4, "3rd argument must be a Floating Point"),
       NonEmpty(6, "6th argument must be a non-empty string"),
       NonEmpty(7, "7th argument must be a non-empty string"),
       NonEmpty(8, "8th argument must be a non-empty string"),
       NonEmpty(9, "9th argument must be a non-empty string"),
       NonEmpty(10, "10th argument must be a non-empty string"),
       NonEmpty(11, "11th argument must be a non-empty string"),
       NonEmpty(12, "12th argument must be a non-empty string"),
       IsFloat(11, "10 argument must be a Floating Point"),
       IsFloat(12, "11 argument must be a Floating Point"),
       NonEmpty(13, "13th argument must be a non-empty string"),
       NonEmpty(14, "14th argument must be a non-empty string"),
       NonEmpty(15, "15th argument must be a non-empty string"),
       NonEmpty(16, "16th argument must be a non-empty string"),
       NonEmpty(17, "17th argument must be a non-empty string"),
       NonEmpty(18, "18th argument must be a non-empty string"),
       NonEmpty(19, "19th argument must be a non-empty string"),
       IsFloat(16, "15 argument must be a Floating Point"),
       IsFloat(18, "17 argument must be a Floating Point"),
       NonEmpty(20, "20th argument must be a non-empty string") >>

----------------------------------------------------------------------------
(* The handlers.  fail is the store call of the handler, counted from 1 in  *)
(* the order the handler issues them, that returns an error; 0 when none    *)
(* fails.                                                                   *)

\* An Init that does not look at the error of strconv.Atoi.
ChaincodeInitUnchecked(st, args, fail) ==
    IF Len(args) # 1
    THEN Result(st, "Incorrect number of arguments. Expecting 1")
    ELSE
        LET Aval == Atoi(args[1])
            jsonAsBytes == MarshalIndex(NilSlice)
            st1 == PutState(st, abcKey, Itoa(Aval.n))
            st2 == PutState(st1, smartPayIndexStr, jsonAsBytes)
            st3 == PutState(st2, paymentIndexStr, jsonAsBytes)
        IN  IF fail = 1 THEN Failure(st, PutStateErr)
            ELSE IF fail = 2 THEN Failure(st1, PutStateErr)
            ELSE IF fail = 3 THEN Failure(st2, PutStateErr)
            ELSE Result(st3, NoErr)

\* An Init that clears the first index only.
ChaincodeInitOneIndex(st, args, fail) ==
    IF Len(args) # 1
    THEN Result(st, "Incorrect number of arguments. Expecting 1")
    ELSE
        LET Aval == Atoi(args[1])
            st1 == PutState(st, abcKey, Itoa(Aval.n))
            st2 == PutState(st1, smartPayIndexStr, MarshalIndex(NilSlice))
        IN  IF ~Aval.ok THEN Result(st, "Expecting integer value for asset holding")
            ELSE IF fail = 1 THEN Failure(st, PutStateErr)
            ELSE IF fail = 2 THEN Failure(st1, PutStateErr)
            ELSE IF fail = 3 THEN Failure(st2, PutStateErr)
            ELSE Result(st2, NoErr)

\* Init: the test variable abc and both indices
ChaincodeInit(st, args, fail) ==
    IF Len(args) # 1
    THEN Result(st, "Incorrect number of arguments. Expecting 1")
    ELSE
        LET Aval == Atoi(args[1])
            jsonAsBytes == MarshalIndex(NilSlice)
            st1 == PutState(st, abcKey, Itoa(Aval.n))
            st2 == PutState(st1, smartPayIndexStr, jsonAsBytes)
            st3 == PutState(st2, paymentIndexStr, jsonAsBytes)
        IN  IF ~Aval.ok THEN Result(st, "Expecting integer value for asset holding")
            ELSE IF fail = 1 THEN Failure(st, PutStateErr)
            ELSE IF fail = 2 THEN Failure(st1, PutStateErr)
            ELSE IF fail = 3 THEN Failure(st2, PutStateErr)
            ELSE Result(st3, NoErr)

\* read
read(st, args, fail) ==
    IF Len(args) # 1
    THEN Result(st, "Incorrect number of arguments. Expecting name of the var to query")
    ELSE IF fail = 1 THEN Failure(st, "Failed to get state")
    ELSE [store |-> st, err |-> NoErr, out |-> GetState(st, args[1]), failed |-> FALSE]

RECURSIVE FirstAt(_, _, _)
\* The first place from i on where the index holds name, 0 when none does.
FirstAt(elems, name, i) ==
    IF i > Len(elems) THEN 0
    ELSE IF elems[i] = name THEN i
    ELSE FirstAt(elems, name, i + 1)

\* A loop that removes every element equal to name.
RemoveEach(sl, name) ==
    IF FirstAt(sl.elems, name, 1) = 0 THEN sl
    ELSE MkSlice(SelectSeq(sl.elems, LAMBDA e : e # name))

\* The loop of Delete: append(index[:i], index[i+1:]...) at the first i with
\* index[i] == name, then break.
RemoveFirst(sl, name) ==
    LET i == FirstAt(sl.elems, name, 1)
    IN  IF i = 0 THEN sl
        ELSE MkSlice(SubSeq(sl.elems, 1, i - 1) \o SubSeq(sl.elems, i + 1, Len(sl.elems)))

\* A Delete that edits the other index.
DeleteIndexKeyPayment == paymentIndexStr

\* The index Delete edits.
DeleteIndexKey == smartPayIndexStr

\* A Delete that returns the error of json.Unmarshal.
DeleteChecked(st, args, fail) ==
    IF Len(args) # 1
    THEN Result(st, "Incorrect number of arguments. Expecting 1")
    ELSE
        LET name == args[1]
            st1 == DelState(st, name)
            smartPayIndex == RemoveFirst(UnmarshalIndex(GetState(st1, DeleteIndexKey)), name)
            st2 == PutState(st1, DeleteIndexKey, MarshalIndex(smartPayIndex))
        IN  IF fail = 1 THEN Failure(st, "Failed to delete state")
            ELSE IF fail = 2 THEN Failure(st1, "Failed to get SmartPayTransaction index")
            ELSE IF Malformed(GetState(st1, DeleteIndexKey))
                 THEN Result(st1, "Failed to decode SmartPayTransaction index")
            ELSE IF fail = 3 THEN Failure(st1, NoErr)
            ELSE Result(st2, NoErr)

\* Delete: the error of the last PutState is dropped.
Delete(st, args, fail) ==
    IF Len(args) # 1
    THEN Result(st, "Incorrect number of arguments. Expecting 1")
    ELSE
        LET name == args[1]
            st1 == DelState(st, name)
            smartPayIndex == RemoveFirst(UnmarshalIndex(GetState(st1, DeleteIndexKey)), name)
            st2 == PutState(st1, DeleteIndexKey, MarshalIndex(smartPayIndex))
        IN  IF fail = 1 THEN Failure(st, "Failed to delete state")
            ELSE IF fail = 2 THEN Failure(st1, "Failed to get SmartPayTransaction index")
            ELSE IF fail = 3 THEN Failure(st1, NoErr)
            ELSE Result(st2, NoErr)

\* Write
Write(st, args, fail) ==
    IF Len(args) # 2
    THEN Result(st, "Incorrect number of arguments. Expecting 2. name of the variable and value to set")
    ELSE IF fail = 1 THEN Failure(st, PutStateErr)
    ELSE Result(PutState(st, args[1], args[2]), NoErr)

\* JsonWrite
JsonWrite(st, args, fail) ==
    IF Len(args) # 2
    THEN Result(st, "Incorrect number of arguments. Expecting 2. name of the variable and value to set")
    ELSE IF fail = 1 THEN Failure(st, PutStateErr)
    ELSE Result(PutState(st, args[1], <<"JsonWrite77", ":">> \o args[2]), NoErr)

\* NewEcrire
NewEcrire(st, args, fail) ==
    IF Len(args) # 2
    THEN Result(st, "Incorrect number of arguments. Expecting 2. name of the variable and value to set")
    ELSE IF fail = 1 THEN Failure(st, PutStateErr)
    ELSE Result(PutState(st, args[1], <<"SmartPayTransactions", ":">> \o args[2]), NoErr)

\* The id field of a decoded record (the first field of each record type).
IdOf(rec) == rec[1]

\* initPayment: the simple create.  The error of the last PutState is dropped.
initPayment(st, args, fail) ==
    IF Len(args) # 5
    THEN Result(st, "Incorrect number of arguments. Expecting 5")
    ELSE
        LET bad == RunChecks(args, initPaymentChecks, 1)
            transID == args[1]
            drawerID == ToLower(args[2])
            payeeID == ToLower(args[3])
            amount == Atoi(args[4]).n
            currency == ToLower(args[5])
            res == UnmarshalStruct(GetState(st, transID), PaymentTransaction)
            str == PaymentStr(transID, drawerID, payeeID, amount, currency)
            st1 == PutState(st, transID, str)
            paymentIndex == AppendSlice(UnmarshalIndex(GetState(st1, paymentIndexStr)), transID)
            st2 == PutState(st1, paymentIndexStr, MarshalIndex(paymentIndex))
        IN  IF bad # NoErr THEN Result(st, bad)
            ELSE IF fail = 1 THEN Failure(st, "Failed to get Transaction name")
            ELSE IF IdOf(res) = transID
                 THEN Result(st, "This PaymentTranaction arleady exists")
            ELSE IF fail = 2 THEN Failure(st, PutStateErr)
            ELSE IF fail = 3 THEN Failure(st1, GetIndexErr)
            ELSE IF fail = 4 THEN Failure(st1, NoErr)
            ELSE Result(st2, NoErr)

\* The fewest arguments initSmartPay lets through its count check.
MinSmartPayArgs == 15

\* initSmartPay: the composite create.  The error of the last PutState is dropped.
initSmartPay(st, args, fail) ==
    IF Len(args) < MinSmartPayArgs
    THEN Result(st, "Incorrect number of arguments. Expecting 15")
    ELSE
        LET bad == RunChecks(args, initSmartPayChecks, 1)
            ptransID == ToLower(args[1])
            drawerID == ToLower(args[2])
            payeeID == ToLower(args[3])
            pAmount == ParseFloat(args[4]).x
            currency == ToLower(args[5])
            rtransID == ToLower(args[6])
            sourceID == ToLower(args[7])
            sourceCurrency == ToLower(args[8])
            destinationID == ToLower(args[9])
            destinationCurrency == ToLower(args[10])
            rAmount == ParseFloat(args[11]).x
            exchangeRate == ParseFloat(args[12]).x
            ltransID == ToLower(args[13])
            lendorID == ToLower(args[14])
            borrowerID == ToLower(args[15])
            loanAmount == ParseFloat(args[16]).x
            lcurrency == ToLower(args[17])
            loanRate == ParseFloat(args[18]).x
            loanReturnDate == ToLower(args[19])
            smartPayID == ToLower(args[20])
            sRes == UnmarshalStruct(GetState(st, smartPayID), SmartPayTransaction)
            strPmt == StrPmt(ptransID, drawerID, payeeID, pAmount, currency)
            strRem == StrRem(rtransID, sourceID, sourceCurrency, destinationID,
                             destinationCurrency, rAmount, exchangeRate)
            strLen == StrLen(ltransID, lendorID, borrowerID, loanAmount, lcurrency,
                             loanRate, loanReturnDate)
            strSmPay == StrSmPay(smartPayID, strPmt, strRem, strLen)
            st1 == PutState(st, smartPayID, strSmPay)
            smartPayIndex == AppendSlice(UnmarshalIndex(GetState(st1, smartPayIndexStr)), smartPayID)
            st2 == PutState(st1, smartPayIndexStr, MarshalIndex(smartPayIndex))
        IN  IF bad # NoErr THEN Result(st, bad)
            ELSE IF fail = 1 THEN Failure(st, "Failed to get Transaction name")
            ELSE IF IdOf(sRes) = smartPayID
                 THEN Result(st, "This smartPay Tranaction arleady exists")
            ELSE IF fail = 2 THEN Failure(st, PutStateErr)
            ELSE IF fail = 3 THEN Failure(st1, GetIndexErr)
            ELSE IF fail = 4 THEN Failure(st1, NoErr)
            ELSE Result(st2, NoErr)

----------------------------------------------------------------------------
(* The commands the model issues *)

\* The longest index a create may leave.
MaxIndexLen == 2

\* The ids of records: t1 and T1 differ by case only.
RecordKeys == {S("t1"), S("T1"), S("s2")}

Keys == RecordKeys \cup {abcKey, smartPayIndexStr, paymentIndexStr}

InitArgs == <<S("7")>>

\* Argument lists of Init that are not one integer: another count, an empty
\* string, a word, a number with a fraction.
BadInitArgLists ==
    { <<>>, <<S("7"), S("35")>>, <<<<>>>>, <<S("abc")>>, <<S("35.50")>> }

PaymentArgs(id, drawer) == <<id, drawer, S("bob"), S("35"), S("USD")>>

SmartPayArgs(id) ==
    << S("p1"), S("alice"), S("bob"), S("35.50"), S("USD"),
       S("r1"), S("alice"), S("USD"), S("bob"), S("EUR"), S("35"), S("1.2"),
       S("l1"), S("alice"), S("bob"), S("1000"), S("USD"), S("4.25"), S("2016-12-31"),
       id >>

ValidPaymentArgLists ==
    {PaymentArgs(id, d) : id \in RecordKeys, d \in {S("alice"), S("Carol")}}

ValidSmartPayArgLists == {SmartPayArgs(id) : id \in RecordKeys}

\* Argument lists with one thing wrong: the count, an empty argument, a number
\* that does not parse.
BadPaymentArgLists ==
    LET base == PaymentArgs(S("t1"), S("alice"))
    IN  {SubSeq(base, 1, 4), base \o <<S("extra")>>}
          \cup {[base EXCEPT ![i] = <<>>] : i \in 1..5}
          \cup {[base EXCEPT ![4] = S("35.50")], [base EXCEPT ![4] = S("abc")]}

BadSmartPayArgLists ==
    LET base == SmartPayArgs(S("s2"))
    IN  {SubSeq(base, 1, n) : n \in 14..19}
          \cup {base \o <<S("extra")>>}
          \cup {[base EXCEPT ![i] = <<>>] : i \in 1..20}
          \cup {[base EXCEPT ![i] = S("abc")] : i \in {4, 11, 12, 16, 18}}

DeleteArgLists == {<<id>> : id \in RecordKeys}

\* The raw writes: to a record id and to both index keys; bytes that are not
\* JSON, an array whose element is no string, an encoded index that holds
\* t1 twice, and an encoded simple payment with the id t1.
RawKeys == {S("t1"), smartPayIndexStr, paymentIndexStr}

RawValues ==
    { S("oops"),
      <<"[", "7", "]">>,
      <<"[", Q, "t1", Q, ",", Q, "s2", Q, ",", Q, "t1", Q, "]">> }

RawPayment == <<"{", Q, "transactionID", Q, ":", Q, "t1", Q, "}">>

WriteArgLists ==
    {<<k, v>> : k \in RawKeys, v \in RawValues}
        \cup {<<S("t1"), RawPayment>>, <<paymentIndexStr, RawPayment>>}

TaggedWriteArgLists == {<<k, S("oops")>> : k \in {S("t1"), smartPayIndexStr}}

\* The ids the creates and deletes use next to the raw writes.
RawRecordKeys == {S("t1"), S("s2")}

----------------------------------------------------------------------------
(* The state machine: Invoke and Query dispatch one command at a time.      *)
(* store is the ledger, last the command that ran last with what it         *)
(* returned, live the kind of the last successful create of each key that   *)
(* no delete has followed.                                                  *)

IndexKeys == {smartPayIndexStr, paymentIndexStr}

IndexOf(st, key) == UnmarshalIndex(GetState(st, key)).elems

\* The command, what it returned, the store call of it that failed (0: none)
\* and the index keys that held malformed bytes when it started.
Cmd(op, args, fail, st, r) ==
    [op |-> op, args |-> args, err |-> r.err, out |-> r.out,
     fail |-> IF r.failed THEN fail ELSE 0,
     malformed |-> {k \in IndexKeys : GetState(st, k) # NoBytes /\ Malformed(GetState(st, k))}]

\* The invocations in flight when the runtime does not run them one after the
\* other: each is at one of the store calls of its create.
Procs == {1, 2}

Idle == [pc |-> "idle", op |-> "", args |-> <<>>, index |-> NilSlice, err |-> NoErr]

EmptyLedger == [k \in Keys |-> NoBytes]

\* Deploying the chaincode runs Init.
Init ==
    LET r == ChaincodeInit(EmptyLedger, InitArgs, 0)
    IN  /\ store = r.store
        /\ last = Cmd("init", InitArgs, 0, EmptyLedger, r)
        /\ live = [k \in RecordKeys |-> "none"]
        /\ procs = [p \in Procs |-> Idle]

InvokeInit(args, fail) ==
    LET r == ChaincodeInit(store, args, fail)
    IN  /\ store' = r.store
        /\ last' = Cmd("init", args, fail, store, r)
        /\ UNCHANGED <<live, procs>>

InvokeDelete(args, fail) ==
    LET r == Delete(store, args, fail)
    IN  /\ store' = r.store
        /\ last' = Cmd("delete", args, fail, store, r)
        /\ live' = IF Len(args) = 1 /\ fail # 1 /\ args[1] \in RecordKeys
                   THEN [live EXCEPT ![args[1]] = "none"]
                   ELSE live
        /\ UNCHANGED procs

InvokeInitPayment(args, fail) ==
    LET r == initPayment(store, args, fail)
    IN  /\ Len(IndexOf(r.store, paymentIndexStr)) <= MaxIndexLen
        /\ store' = r.store
        /\ last' = Cmd("initPayment", args, fail, store, r)
        /\ live' = IF r.err = NoErr THEN [live EXCEPT ![args[1]] = "simple"] ELSE live
        /\ UNCHANGED procs

InvokeInitSmartPay(args, fail) ==
    LET r == initSmartPay(store, args, fail)
    IN  /\ Len(IndexOf(r.store, smartPayIndexStr)) <= MaxIndexLen
        /\ store' = r.store
        /\ last' = Cmd("initSmartPay", args, fail, store, r)
        /\ live' = IF r.err = NoErr
                   THEN [live EXCEPT ![ToLower(args[20])] = "composite"]
                   ELSE live
        /\ UNCHANGED procs

QueryRead(args, fail) ==
    LET r == read(store, args, fail)
    IN  /\ store' = r.store
        /\ last' = Cmd("read", args, fail, store, r)
        /\ UNCHANGED <<live, procs>>

InvokeWrite(args, fail) ==
    LET r == Write(store, args, fail)
    IN  /\ store' = r.store
        /\ last' = Cmd("write", args, fail, store, r)
        /\ UNCHANGED <<live, procs>>

InvokeJsonWrite(args, fail) ==
    LET r == JsonWrite(store, args, fail)
    IN  /\ store' = r.store
        /\ last' = Cmd("jsonWrite", args, fail, store, r)
        /\ UNCHANGED <<live, procs>>

InvokeNewEcrire(args, fail) ==
    LET r == NewEcrire(store, args, fail)
    IN  /\ store' = r.store
        /\ last' = Cmd("newEcrire", args, fail, store, r)
        /\ UNCHANGED <<live, procs>>

\* The record-store commands with well-formed argument lists.
Next ==
    \/ InvokeInit(InitArgs, 0)
    \/ \E args \in DeleteArgLists : InvokeDelete(args, 0)
    \/ \E args \in ValidPaymentArgLists : InvokeInitPayment(args, 0)
    \/ \E args \in ValidSmartPayArgLists : InvokeInitSmartPay(args, 0)
    \/ \E args \in DeleteArgLists : QueryRead(args, 0)

Spec == Init /\ [][Next]_vars

\* The same commands on a ledger that is reset at deployment only.
NextGenesis ==
    \/ \E args \in DeleteArgLists : InvokeDelete(args, 0)
    \/ \E args \in ValidPaymentArgLists : InvokeInitPayment(args, 0)
    \/ \E args \in ValidSmartPayArgLists : InvokeInitSmartPay(args, 0)
    \/ \E args \in DeleteArgLists : QueryRead(args, 0)

SpecGenesis == Init /\ [][NextGenesis]_vars

\* The creates with every argument list, over one simple and one composite id.
NextArgs ==
    \/ InvokeInit(InitArgs, 0)
    \/ \E args \in DeleteArgLists : InvokeDelete(args, 0)
    \/ \E args \in BadPaymentArgLists \cup {PaymentArgs(S("t1"), S("alice"))} :
            InvokeInitPayment(args, 0)
    \/ \E args \in BadSmartPayArgLists \cup {SmartPayArgs(S("s2"))} :
            InvokeInitSmartPay(args, 0)

SpecArgs == Init /\ [][NextArgs]_vars

\* Init, the deletes and the creates over every id, one argument list per id.
NextIds ==
    \/ InvokeInit(InitArgs, 0)
    \/ \E id \in RecordKeys : InvokeDelete(<<id>>, 0)
    \/ \E id \in RecordKeys : InvokeInitPayment(PaymentArgs(id, S("alice")), 0)
    \/ \E id \in RecordKeys : InvokeInitSmartPay(SmartPayArgs(id), 0)

SpecIds == Init /\ [][NextIds]_vars

\* Init with every argument list, next to creates and deletes.
NextInit ==
    \/ \E args \in BadInitArgLists \cup {InitArgs, <<S("35")>>} : InvokeInit(args, 0)
    \/ \E id \in RawRecordKeys : InvokeDelete(<<id>>, 0)
    \/ \E id \in RawRecordKeys : InvokeInitPayment(PaymentArgs(id, S("alice")), 0)
    \/ \E id \in RawRecordKeys : InvokeInitSmartPay(SmartPayArgs(id), 0)

SpecInit == Init /\ [][NextInit]_vars

\* The record-store commands next to the raw writes of both programs.
NextRaw ==
    \/ InvokeInit(InitArgs, 0)
    \/ \E id \in RawRecordKeys : InvokeDelete(<<id>>, 0)
    \/ InvokeInitPayment(PaymentArgs(S("t1"), S("alice")), 0)
    \/ \E id \in RawRecordKeys : InvokeInitSmartPay(SmartPayArgs(id), 0)
    \/ \E args \in WriteArgLists : InvokeWrite(args, 0)
    \/ \E args \in TaggedWriteArgLists : InvokeJsonWrite(args, 0)
    \/ InvokeNewEcrire(<<paymentIndexStr, S("oops")>>, 0)

SpecRaw == Init /\ [][NextRaw]_vars

\* The record-store commands with a store call that may fail.
NextFail ==
    \/ \E fail \in 0..3 : InvokeInit(InitArgs, fail)
    \/ \E id \in RawRecordKeys, fail \in 0..3 : InvokeDelete(<<id>>, fail)
    \/ \E fail \in 0..4 : InvokeInitPayment(PaymentArgs(S("t1"), S("alice")), fail)
    \/ \E fail \in 0..4 : InvokeInitSmartPay(SmartPayArgs(S("s2")), fail)
    \/ \E fail \in 0..1 : QueryRead(<<S("t1")>>, fail)

SpecFail == Init /\ [][NextFail]_vars

----------------------------------------------------------------------------
(* Vocabulary of the properties *)

Range(f) == {f[i] : i \in DOMAIN f}

Creates == {"initPayment", "initSmartPay"}

InvalidArgumentErrs ==
    {"Incorrect number of arguments. Expecting 5",
     "Incorrect number of arguments. Expecting 15"}
        \cup {c.msg : c \in Range(initPaymentChecks)}
        \cup {c.msg : c \in Range(initSmartPayChecks)}

AlreadyExistsErrs ==
    {"This PaymentTranaction arleady exists",
     "This smartPay Tranaction arleady exists"}

\* An argument list that passes the sanitation of its create.
ValidPayment(args) == Len(args) = 5 /\ RunChecks(args, initPaymentChecks, 1) = NoErr

ValidSmartPay(args) == Len(args) = 20 /\ RunChecks(args, initSmartPayChecks, 1) = NoErr

\* The record the validated arguments describe.
PaymentRecord(args) ==
    << args[1], ToLower(args[2]), ToLower(args[3]), Atoi(args[4]).n, ToLower(args[5]) >>

SmartPayRecord(args) ==
    << ToLower(args[20]),
       << ToLower(args[1]), ToLower(args[2]), ToLower(args[3]),
          ParseFloat(args[4]).x, ToLower(args[5]) >>,
       << ToLower(args[6]), ToLower(args[7]), ToLower(args[8]), ToLower(args[9]),
          ToLower(args[10]), ParseFloat(args[11]).x, ParseFloat(args[12]).x >>,
       << ToLower(args[13]), ToLower(args[14]), ToLower(args[15]),
          ParseFloat(args[16]).x, ToLower(args[17]), ParseFloat(args[18]).x,
          ToLower(args[19]) >> >>

NoDuplicate(seq) == \A i, j \in DOMAIN seq : i # j => seq[i] # seq[j]

\* The id argument of a create and the index of its kind.
SuppliedId(op, args) == IF op = "initPayment" THEN args[1] ELSE args[20]

IndexKeyOf(op) == IF op = "initPayment" THEN paymentIndexStr ELSE smartPayIndexStr

\* The key a create stores its record under.
StoredKey(op, args) == IF op = "initPayment" THEN args[1] ELSE ToLower(args[20])

\* The index key a create or a delete reads, edits and writes back.
EditedKey(op) == IF op = "delete" THEN smartPayIndexStr ELSE IndexKeyOf(op)

\* A create or a delete with a well-formed argument list.
WellFormedCall(op, args) ==
    CASE op = "delete" -> Len(args) = 1 /\ args[1] \notin IndexKeys
      [] op = "initPayment" -> ValidPayment(args)
      [] op = "initSmartPay" -> ValidSmartPay(args)

\* The sequence the claim has the command persist over an index taken as
\* empty: the new id alone for a create, nothing for a delete.
OverEmpty(op, args) == IF op = "delete" THEN <<>> ELSE <<StoredKey(op, args)>>

----------------------------------------------------------------------------
(* The creates, one store call at a time *)

\* The argument lists of the invocations in flight.
InterleavedArgLists(op) ==
    IF op = "initPayment"
    THEN {PaymentArgs(id, d) : id \in RawRecordKeys, d \in {S("alice"), <<>>}}
    ELSE {SmartPayArgs(id) : id \in RawRecordKeys}

\* What a create returns before its first store call: the count check and
\* the sanitation.
CreateChecks(op, args) ==
    IF op = "initPayment"
    THEN IF Len(args) # 5
         THEN "Incorrect number of arguments. Expecting 5"
         ELSE RunChecks(args, initPaymentChecks, 1)
    ELSE IF Len(args) < MinSmartPayArgs
         THEN "Incorrect number of arguments. Expecting 15"
         ELSE RunChecks(args, initSmartPayChecks, 1)

\* The existence check of a create on the bytes it read under its key.
CreateExists(op, args, bytes) ==
    IF op = "initPayment"
    THEN IdOf(UnmarshalStruct(bytes, PaymentTransaction)) = StoredKey(op, args)
    ELSE IdOf(UnmarshalStruct(bytes, SmartPayTransaction)) = StoredKey(op, args)

\* The bytes a create puts under its key: they depend on the arguments only.
CreateBytes(op, args) ==
    IF op = "initPayment"
    THEN GetState(initPayment(EmptyLedger, args, 0).store, StoredKey(op, args))
    ELSE GetState(initSmartPay(EmptyLedger, args, 0).store, StoredKey(op, args))

\* The return of an invocation in flight.
Return(p, err, st) ==
    /\ procs' = [procs EXCEPT ![p].pc = "done", ![p].err = err]
    /\ last' = Cmd(procs[p].op, procs[p].args, 0, st, Result(st, err))

\* The runtime hands a create to the chaincode: count check and sanitation.
Submit(p, op, args) ==
    /\ procs[p].pc = "idle"
    /\ IF CreateChecks(op, args) # NoErr
       THEN /\ procs' = [procs EXCEPT ![p] = [pc |-> "done", op |-> op, args |-> args,
                                              index |-> NilSlice,
                                              err |-> CreateChecks(op, args)]]
            /\ last' = Cmd(op, args, 0, store, Result(store, CreateChecks(op, args)))
       ELSE /\ procs' = [procs EXCEPT ![p] = [pc |-> "getRecord", op |-> op, args |-> args,
                                              index |-> NilSlice, err |-> NoErr]]
            /\ UNCHANGED last
    /\ UNCHANGED <<store, live>>

\* GetState of the record key and the existence check.
GetRecord(p) ==
    /\ procs[p].pc = "getRecord"
    /\ IF CreateExists(procs[p].op, procs[p].args,
                       GetState(store, StoredKey(procs[p].op, procs[p].args)))
       THEN Return(p, IF procs[p].op = "initPayment"
                      THEN "This PaymentTranaction arleady exists"
                      ELSE "This smartPay Tranaction arleady exists", store)
       ELSE /\ procs' = [procs EXCEPT ![p].pc = "putRecord"]
            /\ UNCHANGED last
    /\ UNCHANGED <<store, live>>

\* PutState of the record.
PutRecord(p) ==
    /\ procs[p].pc = "putRecord"
    /\ store' = PutState(store, StoredKey(procs[p].op, procs[p].args),
                         CreateBytes(procs[p].op, procs[p].args))
    /\ procs' = [procs EXCEPT ![p].pc = "getIndex"]
    /\ UNCHANGED <<last, live>>

\* GetState of the index and its decoding into the local slice.
GetIndex(p) ==
    /\ procs[p].pc = "getIndex"
    /\ procs' = [procs EXCEPT ![p].pc = "putIndex",
                              ![p].index = UnmarshalIndex(GetState(store, IndexKeyOf(procs[p].op)))]
    /\ UNCHANGED <<store, last, live>>

\* The append to the local slice, PutState of the index and the return.
PutIndex(p) ==
    /\ procs[p].pc = "putIndex"
    /\ store' = PutState(store, IndexKeyOf(procs[p].op),
                         MarshalIndex(AppendSlice(procs[p].index,
                                                  StoredKey(procs[p].op, procs[p].args))))
    /\ Return(p, NoErr, store)
    /\ live' = [live EXCEPT ![StoredKey(procs[p].op, procs[p].args)] =
                                IF procs[p].op = "initPayment" THEN "simple" ELSE "composite"]

\* Two creates whose store calls the runtime interleaves.
NextInterleaved ==
    \/ \E p \in Procs, op \in Creates : \E args \in InterleavedArgLists(op) : Submit(p, op, args)
    \/ \E p \in Procs : GetRecord(p)
    \/ \E p \in Procs : PutRecord(p)
    \/ \E p \in Procs : GetIndex(p)
    \/ \E p \in Procs : PutIndex(p)

SpecInterleaved == Init /\ [][NextInterleaved]_vars

\* An invocation that returned success.
Succeeded(p) == procs[p].pc = "done" /\ procs[p].err = NoErr

\* Bytes that are not JSON, or a JSON value that is neither an array nor null.
NotAnArray(bytes) ==
    LET r == ParseJSON(bytes)
    IN  ~r.ok \/ r.v.k \notin {"array", "null"}


----------------------------------------------------------------------------
(* The properties *)

\* C1: a createSimple with a valid argument list for an id whose last create
\* was a successful createSimple that no delete has followed returns the
\* already-exists error and leaves the bytes under the id and the simple-payment
\* index as they were.
C1_SecondCreateSimpleRejected ==
    [][(last'.op = "initPayment" /\ ValidPayment(last'.args)
            /\ live[last'.args[1]] = "simple")
        => /\ last'.err \in AlreadyExistsErrs
           /\ GetState(store', last'.args[1]) = GetState(store, last'.args[1])
           /\ IndexOf(store', paymentIndexStr) = IndexOf(store, paymentIndexStr)]_vars

\* C2: on a ledger reset at deployment only, every id an index holds has a
\* record stored under it, and the key of every successful create that no
\* delete has followed is in the index of its kind.
C2_IndexHoldsTheLiveRecords ==
    /\ \A id \in Range(IndexOf(store, paymentIndexStr)) : GetState(store, id) # NoBytes
    /\ \A id \in Range(IndexOf(store, smartPayIndexStr)) : GetState(store, id) # NoBytes
    /\ \A k \in RecordKeys :
          /\ live[k] = "simple" => k \in Range(IndexOf(store, paymentIndexStr))
          /\ live[k] = "composite" => k \in Range(IndexOf(store, smartPayIndexStr))

\* C3: neither index holds the same id twice.
C3_NoDuplicateIndexEntry ==
    /\ NoDuplicate(IndexOf(store, paymentIndexStr))
    /\ NoDuplicate(IndexOf(store, smartPayIndexStr))

\* C4: a delete of id that directly follows a successful createSimple of id
\* succeeds, leaves nothing to read under id, and leaves the simple-payment
\* index without id and exactly one shorter.
C4_DeleteAfterCreateSimple ==
    [][(last.op = "initPayment" /\ last.err = NoErr
            /\ last'.op = "delete" /\ last'.args = <<last.args[1]>>)
        => /\ last'.err = NoErr
           /\ read(store', last'.args, 0).out = NoBytes
           /\ last'.args[1] \notin Range(IndexOf(store', paymentIndexStr))
           /\ Len(IndexOf(store', paymentIndexStr))
                = Len(IndexOf(store, paymentIndexStr)) - 1]_vars

\* C5: a createComposite with a valid argument list for a composite id whose
\* last create was a successful createComposite that no delete has followed
\* returns the already-exists error and writes nothing; for a composite id
\* under which nothing is stored it succeeds, whatever the sub-record ids.
C5_SecondCreateCompositeRejected ==
    [][(last'.op = "initSmartPay" /\ ValidSmartPay(last'.args))
        => /\ live[ToLower(last'.args[20])] = "composite"
                => (last'.err \in AlreadyExistsErrs /\ store' = store)
           /\ GetState(store, ToLower(last'.args[20])) = NoBytes
                => last'.err = NoErr]_vars

\* C6: the bytes a successful create has stored under the record id decode,
\* with the decoder of the existence check, to the record of the validated
\* arguments.
C6_CreatedRecordRoundTrips ==
    /\ (last.op = "initPayment" /\ last.err = NoErr)
        => UnmarshalStruct(GetState(store, last.args[1]), PaymentTransaction)
             = PaymentRecord(last.args)
    /\ (last.op = "initSmartPay" /\ last.err = NoErr /\ Len(last.args) >= 20)
        => UnmarshalStruct(GetState(store, ToLower(last.args[20])), SmartPayTransaction)
             = SmartPayRecord(last.args)

\* An argument list the sanitation has to turn down: a simple list of another
\* length than 5, a composite list shorter than 15, or a list of the full
\* length with an empty argument or a numeric argument that does not parse.
MustReject(op, args) ==
    IF op = "initPayment"
    THEN \/ Len(args) # 5
         \/ \E i \in 1..5 : Len(args[i]) = 0
         \/ ~Atoi(args[4]).ok
    ELSE \/ Len(args) < 15
         \/ /\ Len(args) = 20
            /\ \/ \E i \in 1..20 : Len(args[i]) = 0
               \/ \E i \in {4, 11, 12, 16, 18} : ~ParseFloat(args[i]).ok

\* C7: a create that returns an invalid-argument error leaves the whole ledger
\* as it was, and every argument list that has to be turned down is answered
\* with such an error.
C7_RejectedCreateWritesNothing ==
    [][(last'.op \in Creates)
        => /\ last'.err \in InvalidArgumentErrs => store' = store
           /\ MustReject(last'.op, last'.args) => last'.err \in InvalidArgumentErrs]_vars

\* C7 witness: a composite create was turned down for its arguments while
\* records and index entries were stored.
C7_Witness ==
    /\ last.op = "initSmartPay"
    /\ last.err \in InvalidArgumentErrs
    /\ Len(last.args) = 20
    /\ GetState(store, S("s2")) # NoBytes
    /\ IndexOf(store, paymentIndexStr) # <<>>

\* C8: a createComposite with another number of arguments than 20 returns an
\* invalid-argument error (it does not fault) and writes nothing.
C8_CompositeCountMustBe20 ==
    [][(last'.op = "initSmartPay" /\ Len(last'.args) # 20)
        => (last'.err \in InvalidArgumentErrs /\ store' = store)]_vars

\* C9: a delete of an id under which nothing is stored succeeds and leaves the
\* sequence of each index as it was.
C9_DeleteOfAbsentKeepsIndex ==
    [][(last'.op = "delete" /\ Len(last'.args) = 1
            /\ GetState(store, last'.args[1]) = NoBytes)
        => /\ last'.err = NoErr
           /\ IndexOf(store', paymentIndexStr) = IndexOf(store, paymentIndexStr)
           /\ IndexOf(store', smartPayIndexStr) = IndexOf(store, smartPayIndexStr)]_vars

\* C10: a delete of id that directly follows a delete of id succeeds as the
\* first did and leaves the ledger as the first left it.
C10_DeleteIdempotent ==
    [][(last.op = "delete" /\ last'.op = "delete" /\ last'.args = last.args)
        => (last.err = NoErr /\ last'.err = NoErr /\ store' = store)]_vars

\* C11: a record has no Updated state: while the last create of a key has
\* succeeded and no delete of the key has followed, no command other than a
\* delete of that key changes the bytes stored under it.
C11_NoUpdatedState ==
    [][\A k \in RecordKeys :
          (live[k] # "none" /\ ~(last'.op = "delete" /\ last'.args = <<k>>))
            => GetState(store', k) = GetState(store, k)]_vars

\* C12: after a successful init each index key holds valid JSON that decodes
\* without error to the sequence of length zero, whatever it held before, and a
\* successful create that directly follows leaves an index of length one.
C12_ResetClearsBothIndices ==
    [][/\ (last'.op = "init" /\ last'.err = NoErr)
            => \A k \in IndexKeys :
                  /\ ParseJSON(GetState(store', k)).ok
                  /\ ~Malformed(GetState(store', k))
                  /\ Len(IndexOf(store', k)) = 0
       /\ (last.op = "init" /\ last.err = NoErr
              /\ last'.op \in Creates /\ last'.err = NoErr)
            => Len(IndexOf(store', IndexKeyOf(last'.op))) = 1]_vars

\* C12 witness: an init has succeeded that found malformed bytes under both
\* index keys and a record in the ledger.
C12_Witness ==
    /\ last.op = "init"
    /\ last.err = NoErr
    /\ last.malformed = IndexKeys
    /\ GetState(store, S("t1")) # NoBytes

\* C13: a successful create has stored its record under the lowercase form of
\* the id argument, under no other key, and that lowercase form is the last
\* element of the index of its kind.
C13_IdsAreLowercase ==
    [][(last'.op \in Creates /\ last'.err = NoErr)
        => LET id == ToLower(SuppliedId(last'.op, last'.args))
               index == IndexOf(store', IndexKeyOf(last'.op))
           IN  /\ GetState(store', id) # NoBytes
               /\ \A k \in RecordKeys \ {id} : GetState(store', k) = GetState(store, k)
               /\ index # <<>>
               /\ index[Len(index)] = id]_vars

\* C14: an init, a create or a delete one of whose store calls has failed
\* returns an error.
C14_NoStoreFailureSwallowed ==
    [][(last'.op \in Creates \cup {"init", "delete"} /\ last'.fail > 0)
        => last'.err # NoErr]_vars

\* C15: a create whose record put has succeeded and whose read of the index
\* has failed returns an error, leaves the record to be read under its key,
\* and leaves the bytes under both index keys as they were.
C15_OrphanRecord ==
    [][(last'.op \in Creates /\ last'.fail = 3)
        => LET key == StoredKey(last'.op, last'.args)
           IN  /\ last'.err # NoErr
               /\ read(store', <<key>>, 0).out # NoBytes
               /\ store' = [store EXCEPT ![key] = GetState(store', key)]
               /\ \A k \in IndexKeys : GetState(store', k) = GetState(store, k)]_vars

\* C15 witness: a create has returned the error of its index read and its
\* record is stored while the index of its kind does not hold the key.
C15_Witness ==
    /\ last.op \in Creates
    /\ last.fail = 3
    /\ last.err # NoErr
    /\ GetState(store, StoredKey(last.op, last.args)) # NoBytes
    /\ StoredKey(last.op, last.args) \notin Range(IndexOf(store, IndexKeyOf(last.op)))

\* C16: a successful create with valid arguments for a key under which
\* nothing is stored leaves the index of its kind as the sequence it held
\* before followed by the key of the new record.
C16_CreateAppends ==
    [][(last'.op \in Creates /\ last'.err = NoErr
            /\ (ValidPayment(last'.args) \/ ValidSmartPay(last'.args))
            /\ GetState(store, StoredKey(last'.op, last'.args)) = NoBytes)
        => IndexOf(store', IndexKeyOf(last'.op))
             = Append(IndexOf(store, IndexKeyOf(last'.op)),
                      StoredKey(last'.op, last'.args))]_vars

\* C16 witness: a create has appended a second id to an index that held one.
C16_Witness ==
    /\ last.op \in Creates
    /\ last.err = NoErr
    /\ Len(IndexOf(store, IndexKeyOf(last.op))) = 2
    /\ IndexOf(store, IndexKeyOf(last.op))[2] = StoredKey(last.op, last.args)
    /\ IndexOf(store, IndexKeyOf(last.op))[1] # StoredKey(last.op, last.args)

\* C17: a successful delete of id leaves the index it edits, the one under
\* _smartpayindex, without the first element equal to id and with every other
\* element in its place; when no element equals id the sequence is as before.
C17_DeleteRemovesFirstOnly ==
    [][(last'.op = "delete" /\ Len(last'.args) = 1 /\ last'.err = NoErr)
        => LET id == last'.args[1]
               old == IndexOf(store, smartPayIndexStr)
               new == IndexOf(store', smartPayIndexStr)
           IN  IF \E i \in DOMAIN old : old[i] = id
               THEN \E i \in DOMAIN old :
                       /\ old[i] = id
                       /\ \A j \in 1..(i - 1) : old[j] # id
                       /\ new = SubSeq(old, 1, i - 1) \o SubSeq(old, i + 1, Len(old))
               ELSE new = old]_vars

\* C17 witness: a delete of t1 has found t1, s2, t1 in the index and left
\* s2, t1.
C17_Witness ==
    /\ last.op = "delete"
    /\ last.args = <<S("t1")>>
    /\ last.err = NoErr
    /\ IndexOf(store, smartPayIndexStr) = <<S("s2"), S("t1")>>

C19_RawWritesKeepIndexKeys ==
    [][(last'.op \in {"write", "jsonWrite"})
        => \A k \in IndexKeys : GetState(store', k) = GetState(store, k)]_vars

\* C20: a create or a delete that finds malformed bytes (bytes that do not
\* decode to a sequence of strings) under the index key it edits, and is not
\* turned down as already existing, succeeds and persists the index an empty
\* one would give: the new id alone for a create, no element for a delete.
C20_MalformedIndexIsEmpty ==
    [][(last'.op \in Creates \cup {"delete"}
            /\ WellFormedCall(last'.op, last'.args)
            /\ GetState(store, EditedKey(last'.op)) # NoBytes
            /\ Malformed(GetState(store, EditedKey(last'.op)))
            /\ last'.err \notin AlreadyExistsErrs)
        => /\ last'.err = NoErr
           /\ ~Malformed(GetState(store', EditedKey(last'.op)))
           /\ IndexOf(store', EditedKey(last'.op)) = OverEmpty(last'.op, last'.args)]_vars

\* C20 as amended: the same for bytes that are not valid JSON or are a JSON
\* value other than an array (an array with an element that is no string is
\* not taken as empty).
C20_NoArrayIndexIsEmpty ==
    [][(last'.op \in Creates \cup {"delete"}
            /\ WellFormedCall(last'.op, last'.args)
            /\ GetState(store, EditedKey(last'.op)) # NoBytes
            /\ NotAnArray(GetState(store, EditedKey(last'.op)))
            /\ last'.err \notin AlreadyExistsErrs)
        => /\ last'.err = NoErr
           /\ ~Malformed(GetState(store', EditedKey(last'.op)))
           /\ IndexOf(store', EditedKey(last'.op)) = OverEmpty(last'.op, last'.args)]_vars

\* C20 witness: a create has found malformed bytes under the index of its
\* kind and has left there the index that holds its key alone.
C20_Witness ==
    /\ last.op \in Creates
    /\ last.err = NoErr
    /\ IndexKeyOf(last.op) \in last.malformed
    /\ IndexOf(store, IndexKeyOf(last.op)) = <<StoredKey(last.op, last.args)>>

\* The ordinal an invalid-argument message starts with, as a number; 0 for a
\* message that starts with none.
NamedPosition(msg) ==
    CASE msg \in {"1st argument must be a non-empty string"} -> 1
      [] msg \in {"2nd argument must be a non-empty string"} -> 2
      [] msg \in {"3rd argument must be a non-empty string",
                  "3rd argument must be a Floating Point",
                  "3rd argument must be a numeric string"} -> 3
      [] msg \in {"4th argument must be a non-empty string"} -> 4
      [] msg \in {"5th argument must be a non-empty string"} -> 5
      [] msg \in {"6th argument must be a non-empty string"} -> 6
      [] msg \in {"7th argument must be a non-empty string"} -> 7
      [] msg \in {"8th argument must be a non-empty string"} -> 8
      [] msg \in {"9th argument must be a non-empty string"} -> 9
      [] msg \in {"10th argument must be a non-empty string",
                  "10 argument must be a Floating Point"} -> 10
      [] msg \in {"11th argument must be a non-empty string",
                  "11 argument must be a Floating Point"} -> 11
      [] msg \in {"12th argument must be a non-empty string"} -> 12
      [] msg \in {"13th argument must be a non-empty string"} -> 13
      [] msg \in {"14th argument must be a non-empty string"} -> 14
      [] msg \in {"15th argument must be a non-empty string",
                  "15 argument must be a Floating Point"} -> 15
      [] msg \in {"16th argument must be a non-empty string"} -> 16
      [] msg \in {"17th argument must be a non-empty string",
                  "17 argument must be a Floating Point"} -> 17
      [] msg \in {"18th argument must be a non-empty string"} -> 18
      [] msg \in {"19th argument must be a non-empty string"} -> 19
      [] msg \in {"20th argument must be a non-empty string"} -> 20
      [] OTHER -> 0

\* The positions (from 1) of the arguments of a full-length list that are
\* empty, or are numeric arguments that do not parse.
Offending(op, args) ==
    IF op = "initPayment"
    THEN {i \in 1..5 : Len(args[i]) = 0} \cup {i \in {4} : ~Atoi(args[i]).ok}
    ELSE {i \in 1..20 : Len(args[i]) = 0}
            \cup {i \in {4, 11, 12, 16, 18} : ~ParseFloat(args[i]).ok}

\* C21: a create with a list of the full length that holds an empty argument
\* or a numeric argument that does not parse returns an error that names the
\* position, counted from 1, of such an argument.
C21_ErrorNamesThePosition ==
    [][(last'.op \in Creates
            /\ Len(last'.args) = (IF last'.op = "initPayment" THEN 5 ELSE 20)
            /\ Offending(last'.op, last'.args) # {})
        => NamedPosition(last'.err) \in Offending(last'.op, last'.args)]_vars

\* C22: a delete of c without a store failure that directly follows a
\* successful createComposite with c as its 20th argument leaves nothing
\* stored for the composite, under c or under its lowercase form, and leaves
\* the composite index without its id.
C22_CompositeDeletedInAnyCase ==
    [][(last.op = "initSmartPay" /\ last.err = NoErr /\ Len(last.args) = 20
            /\ last'.op = "delete" /\ last'.args = <<last.args[20]>>
            /\ last'.fail = 0)
        => LET c == last.args[20]
           IN  /\ GetState(store', c) = NoBytes
               /\ GetState(store', ToLower(c)) = NoBytes
               /\ c \notin Range(IndexOf(store', smartPayIndexStr))
               /\ ToLower(c) \notin Range(IndexOf(store', smartPayIndexStr))]_vars

\* C23: once two creates for distinct fresh ids whose store calls were
\* interleaved have both returned success, the index of each holds its id.
C23_NoLostIndexEntry ==
    (/\ Succeeded(1) /\ Succeeded(2)
     /\ StoredKey(procs[1].op, procs[1].args) # StoredKey(procs[2].op, procs[2].args))
    => \A p \in Procs :
          StoredKey(procs[p].op, procs[p].args)
              \in Range(IndexOf(store, IndexKeyOf(procs[p].op)))

\* C24: an init whose argument list is not exactly one integer literal
\* returns an error and leaves the whole ledger (the key abc, both indices,
\* every record) as it was.
C24_RejectedInitWritesNothing ==
    [][(last'.op = "init"
            /\ ~(Len(last'.args) = 1 /\ Len(last'.args[1]) = 1
                    /\ last'.args[1][1] \in IntLits))
        => (last'.err # NoErr /\ store' = store)]_vars

\* C24 witness: an init was turned down for its one argument, which is no
\* integer, while another value than the deployed one was under abc and a
\* record and an index entry were stored.
C24_Witness ==
    /\ last.op = "init"
    /\ last.err = "Expecting integer value for asset holding"
    /\ GetState(store, abcKey) = S("35")
    /\ GetState(store, S("t1")) # NoBytes
    /\ IndexOf(store, smartPayIndexStr) # <<>>

====
